---- MODULE Spec2Model ----
(***************************************************************************)
(* Playback & session telemetry of intuitv-watch.                          *)
(*                                                                         *)
(*   Spec      one mounted WebPlayer (src/components/WebPlayer.tsx): the   *)
(*             media-element handlers, the session and heartbeat effects,  *)
(*             the browser's interval timers and the wall clock.           *)
(*   SpecLive  one connectToLiveStats subscription                         *)
(*             (src/shared/api/analyticsClient.ts) and its WebSocket.      *)
(*                                                                         *)
(* A handler is one action: the state update, the re-render it causes and  *)
(* the effects whose dependencies changed (cleanup first, then setup).     *)
(* Times are milliseconds; media positions are milliseconds of media time. *)
(***************************************************************************)
EXTENDS Integers, Sequences, FiniteSets, TLC

VARIABLES
    \* ---- WebPlayer component state (one mount) ----
    mounted,        \* the component is mounted
    playing,        \* useState(false), WebPlayer.tsx:31
    currentTime,    \* useState(0), WebPlayer.tsx:32 (ms of media time)
    sessionStarted, \* useState(false), WebPlayer.tsx:40
    startTimeRef,   \* useRef(0), WebPlayer.tsx:41
    interval,       \* handle captured by the heartbeat effect's cleanup
    \* ---- browser ----
    now,            \* Date.now()
    timers,         \* armed setInterval timers: [id, due, pos]
    \* ---- analytics calls issued by the player ----
    startCalls,     \* number of analyticsClient.startSession calls
    hbCalls,        \* number of analyticsClient.sendHeartbeat calls
    hbInFlight,     \* sendHeartbeat requests whose fetch has not settled
    lastHbPos,      \* position argument of the last sendHeartbeat
    endCalls,       \* number of analyticsClient.endSession calls
    lastWatchTime,  \* watchTime argument of the last endSession
    \* ---- observations of the event history ----
    firstPlayAt,    \* wall-clock time of the first 'play' event, or None
    lastMark,       \* time playing last became true or a heartbeat was sent
    startAck,       \* the startSession request: none, pending, ok or failed
    endInFlight,    \* endSession requests whose fetch has not settled
    afterFailure,   \* kinds of call issued after startSession had failed
    \* ---- live stats subscription ----
    readyState,     \* ws.readyState, or NotConnected / CtorFailed
    closeCalls,     \* number of ws.close() calls
    unsubCalls,     \* number of completed unsubscribe() calls
    closedAtCall,   \* which unsubscribe() call issued ws.close(), 0 if none
    messages,       \* number of message events dispatched by the socket
    updates,        \* number of onUpdate invocations
    lastUpdate,     \* argument of the last onUpdate invocation
    parseErrors,    \* number of messages dropped by the catch block
    lastData,       \* event.data of the last message event
    \* ---- media pipeline (HLS setup effect) ----
    hlsSupported,   \* Hls.isSupported()
    videoUrl,       \* the videoUrl prop (an index into the sources)
    pipelines,      \* every Hls instance created by this mount, in order
    hls,            \* instance captured by the effect's cleanup, 0 if none
    videoSrc,       \* video.src set by the native branch, 0 if unset
    errors,         \* number of Hls.Events.ERROR events handled
    lastError,      \* the last error event: [fatal, type, pipeline]
    \* ---- transport controls ----
    volume,         \* useState(1), WebPlayer.tsx:34 (tenths)
    muted,          \* useState(false), WebPlayer.tsx:35
    fullscreen,     \* useState(false), WebPlayer.tsx:36
    quality,        \* useState('auto'), WebPlayer.tsx:37
    videoVolume,    \* videoRef.current.volume (tenths)
    videoMuted,     \* videoRef.current.muted
    docFullscreen,  \* document.fullscreenElement is set
    lastCommand,    \* the last transport command handled
    \* ---- analytics client ----
    apiCalls,       \* number of client operations called
    netCalls,       \* number of network requests issued by the transport
    lastCall        \* the last operation: [op, outcome, raised, value]

playerVars == <<mounted, playing, currentTime, sessionStarted, startTimeRef,
                interval, now, timers, startCalls, hbCalls, hbInFlight,
                lastHbPos, endCalls, lastWatchTime, firstPlayAt, lastMark,
                startAck, endInFlight, afterFailure>>

liveVars == <<readyState, closeCalls, unsubCalls, closedAtCall, messages, updates,
              lastUpdate, parseErrors, lastData>>

hlsVars == <<hlsSupported, videoUrl, pipelines, hls, videoSrc, errors, lastError>>

clientVars == <<apiCalls, netCalls, lastCall>>

controlVars == <<volume, muted, fullscreen, quality, videoVolume, videoMuted,
                 docFullscreen, lastCommand>>

vars == <<playerVars, liveVars, hlsVars, clientVars, controlVars>>

(***************************************************************************)
(* Bounds and program constants                                            *)
(***************************************************************************)
ClockStep == 7500         \* largest step of the wall clock between events
MaxNow == 60000           \* the wall clock stops here
PosStep == 500            \* granularity of media positions
MaxPos == 2               \* positions are 0 .. MaxPos * PosStep
MaxEnded == 2             \* 'ended' events per mount
MaxUnsub == 3             \* unsubscribe() calls per subscription
MaxMessages == 3          \* message events per subscription
MaxSourceChanges == 2     \* changes of the videoUrl prop per mount
MaxErrors == 3            \* pipeline error events per mount
MaxCalls == 2             \* client operations per run
RandSteps == 3            \* Math.random() returns k / RandSteps, k < RandSteps
MaxLimit == 9             \* largest limit passed to getRecommendations

HeartbeatInterval == 30000
MsPerSecond == 1000

None == -1
NoTimer == 0

Positions == {k * PosStep : k \in 0..MaxPos}

SetMin(S) == CHOOSE x \in S : \A y \in S : x <= y

(***************************************************************************)
(* Pure helpers of the player                                              *)
(***************************************************************************)
\* Math.floor of a non-negative number of seconds given in milliseconds.
FloorSeconds(ms) == ms \div MsPerSecond

\* Math.round instead of Math.floor.
WatchTimeRounded(nowMs, start) == (nowMs - start + 500) \div MsPerSecond

\* handleEnded: Math.floor((Date.now() - startTimeRef.current) / 1000)
WatchTime(nowMs, start) == FloorSeconds(nowMs - start)

\* The guard without the one-shot flag.
ShouldStartWheneverPlaying(p, started) == p

\* Guard of the session effect: if (playing && !sessionStarted)
ShouldStartSession(p, started) == p /\ ~started

\* A cleanup that leaves the interval registered.
ClearIntervalNoop(ts, h) == ts

\* clearInterval(handle)
ClearInterval(ts, h) == {t \in ts : t.id # h}

\* An unmount or re-run that skips the effect's cleanup.
HeartbeatCleanupNoop(ts, h) == ts

\* Cleanup returned by the previous run of the heartbeat effect, if any.
HeartbeatCleanup(ts, h) == IF h = NoTimer THEN ts ELSE ClearInterval(ts, h)

\* Handle returned by setInterval: one that no armed timer uses.
FreshId(ts) == SetMin({i \in 1..(Cardinality(ts) + 1) : \A t \in ts : t.id # i})

\* Body of the heartbeat effect for a render with playing = p, currentTime = c.
HeartbeatSetup(ts, p, c) ==
    IF ~p
    THEN [timers |-> ts, interval |-> NoTimer]
    ELSE LET id == FreshId(ts)
         IN  [timers |-> ts \cup {[id |-> id,
                                   due |-> now + HeartbeatInterval,
                                   pos |-> FloorSeconds(c)]},
              interval |-> id]

\* Number of startSession calls made by the session effect after a render in
\* which playing became p: the effect runs, and runs once more after the
\* re-render caused by setSessionStarted(true).
SessionEffectCalls(p, started) ==
    IF ShouldStartSession(p, started)
    THEN IF ~started /\ ShouldStartSession(p, TRUE) THEN 2 ELSE 1
    ELSE 0

(***************************************************************************)
(* Media pipeline: the HLS setup effect and its error handler              *)
(***************************************************************************)
NoPipeline == 0

NoCall == [op |-> "none"]

\* Hls.ErrorTypes
ErrorTypes == {"networkError", "mediaError", "keySystemError", "muxError",
               "otherError"}

NoError == [fatal |-> FALSE, type |-> "none", pipeline |-> NoPipeline]

\* new Hls({...}); hls.loadSource(videoUrl); hls.attachMedia(video)
NewPipeline(url) ==
    [source |-> url, destroyCalls |-> 0, startLoads |-> 0, recovers |-> 0]

\* hls.destroy() on instance h
Destroy(ps, h) == [ps EXCEPT ![h].destroyCalls = @ + 1]

\* A cleanup that leaves the instance alone.
HlsCleanupSkipped(ps, h) == ps

\* Cleanup returned by the HLS setup effect: () => { hls.destroy(); };
\* the native branches return no cleanup.
HlsCleanup(ps, h) == IF h = NoPipeline THEN ps ELSE Destroy(ps, h)

\* A handler that rebuilds on network errors instead of resuming the load.
ErrorActionDestroyOnNetwork(fatal, type) ==
    IF ~fatal THEN "none"
    ELSE IF type = "mediaError" THEN "recoverMediaError"
    ELSE "destroy"

\* The switch of the Hls.Events.ERROR handler.
ErrorAction(fatal, type) ==
    IF ~fatal THEN "none"
    ELSE IF type = "networkError" THEN "startLoad"
    ELSE IF type = "mediaError" THEN "recoverMediaError"
    ELSE "destroy"

\* The instances that were not destroyed.
Live(ps) == {i \in 1..Len(ps) : ps[i].destroyCalls = 0}

(***************************************************************************)
(* Render: commit playing = p and currentTime = c and run the effects      *)
(* whose dependency arrays changed.                                        *)
(***************************************************************************)
Render(p, c) ==
    LET sessionDeps == p # playing
        hbDeps      == p # playing \/ c # currentTime
        calls       == IF sessionDeps THEN SessionEffectCalls(p, sessionStarted) ELSE 0
        cleaned     == IF hbDeps THEN HeartbeatCleanup(timers, interval) ELSE timers
        setup       == HeartbeatSetup(cleaned, p, c)
    IN  /\ playing' = p
        /\ currentTime' = c
        /\ sessionStarted' = (sessionStarted \/ calls > 0)
        /\ startTimeRef' = IF calls > 0 THEN now ELSE startTimeRef
        /\ startCalls' = startCalls + calls
        /\ startAck' = IF calls > 0 THEN "pending" ELSE startAck
        /\ timers' = IF hbDeps THEN setup.timers ELSE timers
        /\ interval' = IF hbDeps THEN setup.interval ELSE interval

(***************************************************************************)
(* Media-element handlers                                                  *)
(***************************************************************************)
\* onPlay
HandlePlay ==
    /\ mounted
    /\ Render(TRUE, currentTime)
    /\ firstPlayAt' = IF firstPlayAt = None THEN now ELSE firstPlayAt
    /\ lastMark' = IF playing THEN lastMark ELSE now
    /\ UNCHANGED <<mounted, now, hbCalls, hbInFlight, lastHbPos, endCalls,
                   lastWatchTime, endInFlight, afterFailure, liveVars, hlsVars,
                   clientVars, controlVars>>

\* onPause
HandlePause ==
    /\ mounted
    /\ Render(FALSE, currentTime)
    /\ UNCHANGED <<mounted, now, hbCalls, hbInFlight, lastHbPos, endCalls,
                   lastWatchTime, firstPlayAt, lastMark, endInFlight,
                   afterFailure, liveVars, hlsVars, clientVars, controlVars>>

\* onTimeUpdate: setCurrentTime(videoRef.current.currentTime)
HandleTimeUpdate ==
    /\ mounted
    /\ \E c \in Positions : Render(playing, c)
    /\ UNCHANGED <<mounted, now, hbCalls, hbInFlight, lastHbPos, endCalls,
                   lastWatchTime, firstPlayAt, lastMark, endInFlight,
                   afterFailure, liveVars, hlsVars, clientVars, controlVars>>

\* onEnded
HandleEnded ==
    /\ mounted
    /\ endCalls < MaxEnded
    /\ Render(FALSE, currentTime)
    /\ lastWatchTime' = WatchTime(now, startTimeRef)
    /\ endCalls' = endCalls + 1
    /\ endInFlight' = endInFlight + 1
    /\ afterFailure' = IF startAck = "failed"
                       THEN afterFailure \cup {"endSession"} ELSE afterFailure
    /\ UNCHANGED <<mounted, now, hbCalls, hbInFlight, lastHbPos, firstPlayAt,
                   lastMark, liveVars, hlsVars, clientVars, controlVars>>

\* Unmount: the cleanups of the effects run (the pipeline is destroyed, the
\* interval cleared), the handlers are detached.
Unmount ==
    /\ mounted
    /\ mounted' = FALSE
    /\ timers' = HeartbeatCleanup(timers, interval)
    /\ interval' = NoTimer
    /\ pipelines' = HlsCleanup(pipelines, hls)
    /\ hls' = NoPipeline
    /\ UNCHANGED <<playing, currentTime, sessionStarted, startTimeRef, now,
                   startCalls, hbCalls, hbInFlight, lastHbPos, endCalls,
                   lastWatchTime, firstPlayAt, lastMark, startAck, endInFlight,
                   afterFailure, hlsSupported, videoUrl,
                   videoSrc, errors, lastError, liveVars, clientVars,
                   controlVars>>

(***************************************************************************)
(* Browser: interval timers, the network and the clock                     *)
(***************************************************************************)
\* The setInterval callback: analyticsClient.sendHeartbeat(sessionId, pos).
\* The returned promise is not awaited.
HeartbeatTick ==
    /\ \E t \in timers :
        /\ t.due <= now
        /\ timers' = (timers \ {t}) \cup {[t EXCEPT !.due = t.due + HeartbeatInterval]}
        /\ lastHbPos' = t.pos
    /\ hbCalls' = hbCalls + 1
    /\ hbInFlight' = hbInFlight + 1
    /\ lastMark' = now
    /\ afterFailure' = IF startAck = "failed"
                       THEN afterFailure \cup {"sendHeartbeat"} ELSE afterFailure
    /\ UNCHANGED <<mounted, playing, currentTime, sessionStarted, startTimeRef,
                   interval, now, startCalls, endCalls, lastWatchTime,
                   firstPlayAt, startAck, endInFlight, liveVars, hlsVars,
                   clientVars, controlVars>>

\* A component that forgets its session when a call fails.
RestartOnFailure(started, ok) == started /\ ok

\* The promises returned by startSession, sendHeartbeat and endSession are
\* discarded: no continuation of the component runs when a call settles.
AfterSettled(started, ok) == started

\* The fetch behind one sendHeartbeat settles (response or failure).
HeartbeatSettled ==
    /\ hbInFlight > 0
    /\ hbInFlight' = hbInFlight - 1
    /\ \E ok \in BOOLEAN : sessionStarted' = AfterSettled(sessionStarted, ok)
    /\ UNCHANGED <<mounted, playing, currentTime, startTimeRef,
                   interval, now, timers, startCalls, hbCalls, lastHbPos,
                   endCalls, lastWatchTime, firstPlayAt, lastMark, startAck,
                   endInFlight, afterFailure, liveVars, hlsVars, clientVars,
                   controlVars>>

\* The fetch behind startSession settles; on failure the client returns a
\* synthesized session record, which the component does not read either.
StartSettled ==
    /\ startAck = "pending"
    /\ \E ok \in BOOLEAN :
        /\ startAck' = IF ok THEN "ok" ELSE "failed"
        /\ sessionStarted' = AfterSettled(sessionStarted, ok)
    /\ UNCHANGED <<mounted, playing, currentTime, startTimeRef,
                   interval, now, timers, startCalls, hbCalls, hbInFlight,
                   lastHbPos, endCalls, lastWatchTime, firstPlayAt, lastMark,
                   endInFlight, afterFailure, liveVars, hlsVars, clientVars,
                   controlVars>>

\* The fetch behind one endSession settles (response or failure).
EndSettled ==
    /\ endInFlight > 0
    /\ endInFlight' = endInFlight - 1
    /\ \E ok \in BOOLEAN : sessionStarted' = AfterSettled(sessionStarted, ok)
    /\ UNCHANGED <<mounted, playing, currentTime, startTimeRef,
                   interval, now, timers, startCalls, hbCalls, hbInFlight,
                   lastHbPos, endCalls, lastWatchTime, firstPlayAt, lastMark,
                   startAck, afterFailure, liveVars, hlsVars, clientVars,
                   controlVars>>

\* Wall-clock time passes, up to the next due timer.
AdvanceClock ==
    /\ now < MaxNow
    /\ \A t \in timers : t.due > now
    /\ now' = SetMin({now + ClockStep, MaxNow} \cup {t.due : t \in timers})
    /\ UNCHANGED <<mounted, playing, currentTime, sessionStarted, startTimeRef,
                   interval, timers, startCalls, hbCalls, hbInFlight,
                   lastHbPos, endCalls, lastWatchTime, firstPlayAt, lastMark,
                   startAck, endInFlight, afterFailure, liveVars, hlsVars,
                   clientVars, controlVars>>

(***************************************************************************)
(* Live stats channel: connectToLiveStats and its WebSocket                *)
(***************************************************************************)
NoUpdate == [type |-> "none"]

\* JSON texts, as token sequences.
WellFormedData ==
    { <<"1">>,
      <<"null">>,
      <<"true">>,
      <<"false">>,
      <<"{", "}">>,
      <<"[", "]">>,
      <<"[", "1", "]">>,
      <<"{", "k", ":", "1", "}">>,
      <<"{", "k", ":", "{", "}", "}">>,
      <<"{", "success", ":", "true", "}">>,
      <<"{", "success", ":", "false", "}">> }

\* Texts that are not JSON.
MalformedData ==
    { <<>>,
      <<"{">>,
      <<"{", "k", ":", "}">>,
      <<"{", "k", ":", "1">>,
      <<"[", "1">>,
      <<"1", "}">>,
      <<"k">> }

\* Payloads of message events and response bodies.
MessageData == WellFormedData \cup MalformedData

ParseFailure == [ok |-> FALSE, rest |-> <<>>, value |-> NoUpdate]

Parsed(v, rest) == [ok |-> TRUE, rest |-> rest, value |-> v]

\* One JSON value at the head of a token sequence.
RECURSIVE ParseValue(_)
ParseValue(ts) ==
    IF ts = <<>> THEN ParseFailure
    ELSE IF Head(ts) = "1"
         THEN Parsed([type |-> "number"], Tail(ts))
    ELSE IF Head(ts) = "null"
         THEN Parsed([type |-> "null"], Tail(ts))
    ELSE IF Head(ts) \in {"true", "false"}
         THEN Parsed([type |-> "boolean", b |-> (Head(ts) = "true")], Tail(ts))
    ELSE IF Head(ts) = "["
         THEN IF Len(ts) >= 2 /\ ts[2] = "]"
              THEN Parsed([type |-> "array", len |-> 0], SubSeq(ts, 3, Len(ts)))
              ELSE LET inner == ParseValue(Tail(ts))
                   IN  IF inner.ok /\ inner.rest # <<>> /\ Head(inner.rest) = "]"
                       THEN Parsed([type |-> "array", len |-> 1, item |-> inner.value],
                                   Tail(inner.rest))
                       ELSE ParseFailure
    ELSE IF Head(ts) = "{"
         THEN IF Len(ts) >= 2 /\ ts[2] = "}"
              THEN Parsed([type |-> "object", key |-> "", val |-> NoUpdate],
                          SubSeq(ts, 3, Len(ts)))
              ELSE IF Len(ts) >= 3 /\ ts[2] \in {"k", "success"} /\ ts[3] = ":"
                   THEN LET inner == ParseValue(SubSeq(ts, 4, Len(ts)))
                        IN  IF inner.ok /\ inner.rest # <<>> /\ Head(inner.rest) = "}"
                            THEN Parsed([type |-> "object", key |-> ts[2],
                                         val |-> inner.value],
                                        Tail(inner.rest))
                            ELSE ParseFailure
                   ELSE ParseFailure
    ELSE ParseFailure

\* JSON.parse(event.data): a value, or a SyntaxError (ok = FALSE).
JSONParse(d) ==
    LET r == ParseValue(d)
    IN  IF r.ok /\ r.rest = <<>> THEN r ELSE ParseFailure

\* WebSocket.close(): starts the closing handshake of a socket that is
\* connecting or open, and does nothing otherwise.
WsClose(rs) == IF rs \in {"CONNECTING", "OPEN"} THEN "CLOSING" ELSE rs

\* A guard that closes whatever the ready state.
ShouldCloseAlways(rs) == TRUE

\* Guard of the returned unsubscribe: ws.readyState === WebSocket.OPEN
ShouldClose(rs) == rs = "OPEN"

\* The unsubscribe function returned by connectToLiveStats, as a function of
\* the socket state: () => {} when the constructor threw.
Unsubscribed(s) ==
    IF s.readyState = "CtorFailed" THEN s
    ELSE IF ShouldClose(s.readyState)
         THEN [readyState |-> WsClose(s.readyState), closeCalls |-> s.closeCalls + 1]
         ELSE s

SocketState == [readyState |-> readyState, closeCalls |-> closeCalls]

\* connectToLiveStats: new WebSocket(...) returns a connecting socket or
\* throws, and the handlers are registered.
Connect ==
    /\ readyState = "NotConnected"
    /\ \E throws \in BOOLEAN :
        readyState' = IF throws THEN "CtorFailed" ELSE "CONNECTING"
    /\ UNCHANGED <<closeCalls, unsubCalls, closedAtCall, messages, updates,
                   lastUpdate, parseErrors, lastData, playerVars, hlsVars, clientVars, controlVars>>

\* The connection is established.
SocketOpen ==
    /\ readyState = "CONNECTING"
    /\ readyState' = "OPEN"
    /\ UNCHANGED <<closeCalls, unsubCalls, closedAtCall, messages, updates,
                   lastUpdate, parseErrors, lastData, playerVars, hlsVars, clientVars, controlVars>>

\* A handler whose catch block gives up the connection.
CloseOnParseError(rs, ok) == IF ok THEN rs ELSE WsClose(rs)

\* The onmessage handler never touches the socket, whether the parse
\* succeeded or not.
ReadyStateAfterMessage(rs, ok) == rs

\* ws.onmessage: a message event is dispatched on the open socket.
SocketMessage ==
    /\ readyState = "OPEN"
    /\ messages < MaxMessages
    /\ messages' = messages + 1
    /\ \E d \in MessageData :
        LET r == JSONParse(d)
        IN  /\ lastData' = d
            /\ readyState' = ReadyStateAfterMessage(readyState, r.ok)
            /\ IF r.ok
               THEN /\ updates' = updates + 1
                    /\ lastUpdate' = r.value
                    /\ UNCHANGED parseErrors
               ELSE /\ parseErrors' = parseErrors + 1
                    /\ UNCHANGED <<updates, lastUpdate>>
    /\ UNCHANGED <<closeCalls, unsubCalls, closedAtCall, playerVars, hlsVars, clientVars, controlVars>>

\* ws.onerror / close: the connection fails or is closed; the error is
\* logged and nothing reconnects.
SocketClosed ==
    /\ readyState \in {"CONNECTING", "OPEN", "CLOSING"}
    /\ readyState' = "CLOSED"
    /\ UNCHANGED <<closeCalls, unsubCalls, closedAtCall, messages, updates,
                   lastUpdate, parseErrors, lastData, playerVars, hlsVars, clientVars, controlVars>>

\* The caller invokes the returned unsubscribe function.
Unsubscribe ==
    /\ readyState # "NotConnected"
    /\ unsubCalls < MaxUnsub
    /\ LET s == Unsubscribed(SocketState)
       IN  /\ readyState' = s.readyState
           /\ closeCalls' = s.closeCalls
           /\ closedAtCall' = IF s.closeCalls # closeCalls
                              THEN unsubCalls + 1 ELSE closedAtCall
    /\ unsubCalls' = unsubCalls + 1
    /\ UNCHANGED <<messages, updates, lastUpdate, parseErrors, lastData, playerVars, hlsVars, clientVars, controlVars>>


(***************************************************************************)
(* Media pipeline events                                                   *)
(***************************************************************************)
\* The videoUrl prop changes: the HLS setup effect re-runs, cleanup first.
SourceChange ==
    /\ mounted
    /\ videoUrl <= MaxSourceChanges
    /\ videoUrl' = videoUrl + 1
    /\ LET cleaned == HlsCleanup(pipelines, hls)
       IN  IF hlsSupported
           THEN /\ pipelines' = Append(cleaned, NewPipeline(videoUrl'))
                /\ hls' = Len(cleaned) + 1
                /\ UNCHANGED videoSrc
           ELSE /\ pipelines' = cleaned
                /\ hls' = NoPipeline
                /\ videoSrc' = videoUrl'
    /\ UNCHANGED <<hlsSupported, errors, lastError, playerVars, liveVars,
                   clientVars, controlVars>>

\* An instance that was not destroyed emits Hls.Events.ERROR (destroy()
\* removes the instance's listeners); the handler closes over that instance.
HlsError ==
    /\ errors < MaxErrors
    /\ \E p \in Live(pipelines), fatal \in BOOLEAN, type \in ErrorTypes :
        LET act == ErrorAction(fatal, type)
        IN  /\ lastError' = [fatal |-> fatal, type |-> type, pipeline |-> p]
            /\ pipelines' =
                 IF act = "startLoad"
                 THEN [pipelines EXCEPT ![p].startLoads = @ + 1]
                 ELSE IF act = "recoverMediaError"
                 THEN [pipelines EXCEPT ![p].recovers = @ + 1]
                 ELSE IF act = "destroy"
                 THEN Destroy(pipelines, p)
                 ELSE pipelines
    /\ errors' = errors + 1
    /\ UNCHANGED <<hlsSupported, videoUrl, hls, videoSrc, playerVars, liveVars,
                   clientVars, controlVars>>

\* State after the first run of the HLS setup effect.
InitHls(supported) ==
    /\ hlsSupported = supported
    /\ videoUrl = 1
    /\ pipelines = IF supported THEN <<NewPipeline(1)>> ELSE <<>>
    /\ hls = IF supported THEN 1 ELSE NoPipeline
    /\ videoSrc = IF supported THEN 0 ELSE 1
    /\ errors = 0
    /\ lastError = NoError

(***************************************************************************)
(* Transport controls                                                      *)
(***************************************************************************)
\* The volume slider: min 0, max 1, step 0.1 (in tenths).
VolumeMax == 10

Qualities == {"auto", "1080p", "720p", "480p"}

\* toggleMute
ToggleMute ==
    /\ mounted
    /\ videoMuted' = ~muted
    /\ muted' = ~muted
    /\ lastCommand' = "toggleMute"
    /\ UNCHANGED <<volume, fullscreen, quality, videoVolume, docFullscreen,
                   playerVars, liveVars, hlsVars, clientVars>>

\* handleVolumeChange(newVolume)
HandleVolumeChange ==
    /\ mounted
    /\ \E newVolume \in 0..VolumeMax :
        /\ videoVolume' = newVolume
        /\ volume' = newVolume
        /\ muted' = (newVolume = 0)
    /\ lastCommand' = "setVolume"
    /\ UNCHANGED <<fullscreen, quality, videoMuted, docFullscreen,
                   playerVars, liveVars, hlsVars, clientVars>>

\* toggleFullscreen
ToggleFullscreen ==
    /\ mounted
    /\ IF ~docFullscreen
       THEN docFullscreen' = TRUE /\ fullscreen' = TRUE
       ELSE docFullscreen' = FALSE /\ fullscreen' = FALSE
    /\ lastCommand' = "toggleFullscreen"
    /\ UNCHANGED <<volume, muted, quality, videoVolume, videoMuted,
                   playerVars, liveVars, hlsVars, clientVars>>

\* The user leaves fullscreen with the browser's own control (Escape).
ExitFullscreen ==
    /\ docFullscreen
    /\ docFullscreen' = FALSE
    /\ UNCHANGED <<volume, muted, fullscreen, quality, videoVolume, videoMuted,
                   lastCommand, playerVars, liveVars, hlsVars, clientVars>>

\* The quality select: setQuality(e.target.value)
SetQuality ==
    /\ mounted
    /\ \E q \in Qualities : quality' = q
    /\ lastCommand' = "setQuality"
    /\ UNCHANGED <<volume, muted, fullscreen, videoVolume, videoMuted,
                   docFullscreen, playerVars, liveVars, hlsVars, clientVars>>

(***************************************************************************)
(* Telemetry transport and analytics client                                *)
(***************************************************************************)
Null == [type |-> "null"]
True == [type |-> "boolean", b |-> TRUE]
False == [type |-> "boolean", b |-> FALSE]

\* Response statuses the server may answer with.
Statuses == {200, 204, 404, 500}

\* What the network does with one request: it fails, or it answers with a
\* status and a body.
NetworkFailure == [network |-> "fail", status |-> 0, body |-> <<>>]

\* Bodies that come with an error status.
ErrorBodies == {<<>>, <<"{", "success", ":", "true", "}">>}

Outcomes ==
    {NetworkFailure} \cup
    {[network |-> "ok", status |-> st, body |-> b] :
        st \in {200, 204}, b \in MessageData} \cup
    {[network |-> "ok", status |-> st, body |-> b] :
        st \in Statuses \ {200, 204}, b \in ErrorBodies}

\* response.ok
ResponseOk(status) == status >= 200 /\ status <= 299

Thrown == [raised |-> TRUE, value |-> Null]
Returned(v) == [raised |-> FALSE, value |-> v]

\* The try block of fetch: the global fetch rejects on a network failure,
\* a non-2xx status returns null, response.json() rejects on a bad body.
FetchBody(o) ==
    IF o.network = "fail" THEN Thrown
    ELSE IF ~ResponseOk(o.status) THEN Returned(Null)
    ELSE LET r == JSONParse(o.body)
         IN  IF r.ok THEN Returned(r.value) ELSE Thrown

\* A transport whose rejections escape (no catch, or json() not awaited).
FetchNoCatch(o) == FetchBody(o)

\* WatchAnalyticsClient.fetch: the catch block turns every exception into
\* null.
Fetch(o) ==
    LET b == FetchBody(o)
    IN  IF b.raised THEN Returned(Null) ELSE b

\* Network requests issued by one fetch call: one, no retry loop.
FetchAttempts(o) == 1

\* JavaScript falsiness of a JSON value (no number 0 or empty string among
\* the payloads).
Falsy(v) == v.type = "null" \/ (v.type = "boolean" /\ ~v.b)

\* A read that hands back whatever the transport returned.
ReadResultNoFallback(data, fallback) == data

\* if (!data) return <fallback>; return data;
ReadResult(data, fallback) == IF Falsy(data) THEN fallback ELSE data

\* A write that reports success when there is no answer.
WriteResultDefaultTrue(data) ==
    IF data.type = "object" /\ data.key = "success"
    THEN IF Falsy(data.val) THEN False ELSE data.val
    ELSE True

\* return data?.success || false
WriteResult(data) ==
    IF data.type = "object" /\ data.key = "success" /\ ~Falsy(data.val)
    THEN data.val
    ELSE False

\* The fallback of getStreamInfo.
StreamInfoFallback ==
    [type |-> "object", stream_url |-> "https://cdn.intuitv.app/stream/demo.m3u8",
     title |-> "IntuiTV Live Stream", channel |-> "IntuiTV Main", live |-> TRUE]

MockTitles == 8

\* getMockRecommendations(limit): Array.from({length: Math.min(limit, 8)}).
MockRecommendations(limit) ==
    [type |-> "array", len |-> IF limit < MockTitles THEN limit ELSE MockTitles]

\* The fallback of getViewerStats, Math.random() being r / RandSteps;
\* avg_watch_time and engagement_rate in thousandths.
ViewerStatsFallback(r1, r2, r3, r4) ==
    [type |-> "object",
     current_viewers |-> 10000 + (5000 * r1) \div RandSteps,
     total_views |-> 500000 + (100000 * r2) \div RandSteps,
     avg_watch_time |-> 4200 + (2000 * r3) \div RandSteps,
     engagement_rate |-> 750 + (200 * r4) \div RandSteps]

\* The fallback of startSession.
SessionFallback ==
    [type |-> "object", session_id |-> "sid", content_id |-> "cid",
     start_time |-> now, last_heartbeat |-> now]

ReadOps == {"getStreamInfo", "getRecommendations", "getViewerStats"}
WriteOps == {"sendHeartbeat", "endSession", "recordInteraction"}

\* The extreme values of Math.random().
Randoms == {0, RandSteps - 1}
Limits == {0, 5, MaxLimit}

\* One client operation: it awaits this.fetch once and maps the data.
Call(op, o, f, v) ==
    /\ apiCalls < MaxCalls
    /\ apiCalls' = apiCalls + 1
    /\ netCalls' = netCalls + FetchAttempts(o)
    /\ lastCall' = [op |-> op, outcome |-> o, raised |-> f.raised,
                    fetched |-> f.value,
                    value |-> IF f.raised THEN Null ELSE v]
    /\ UNCHANGED <<playerVars, liveVars, hlsVars, controlVars>>

GetStreamInfo ==
    \E o \in Outcomes :
        LET f == Fetch(o)
        IN  Call("getStreamInfo", o, f, ReadResult(f.value, StreamInfoFallback))

GetRecommendations ==
    \E o \in Outcomes, limit \in Limits :
        LET f == Fetch(o)
        IN  Call("getRecommendations", o, f,
                 ReadResult(f.value, MockRecommendations(limit)))

GetViewerStats ==
    \E o \in Outcomes :
        LET f == Fetch(o)
        IN  IF Falsy(f.value)
            THEN \E r1 \in Randoms, r2 \in Randoms, r3 \in Randoms, r4 \in Randoms :
                    Call("getViewerStats", o, f,
                         ReadResult(f.value, ViewerStatsFallback(r1, r2, r3, r4)))
            ELSE Call("getViewerStats", o, f, ReadResult(f.value, Null))

StartSession ==
    \E o \in Outcomes :
        LET f == Fetch(o)
        IN  Call("startSession", o, f, ReadResult(f.value, SessionFallback))

SendHeartbeat ==
    \E o \in Outcomes :
        LET f == Fetch(o) IN Call("sendHeartbeat", o, f, WriteResult(f.value))

EndSession ==
    \E o \in Outcomes :
        LET f == Fetch(o) IN Call("endSession", o, f, WriteResult(f.value))

RecordInteraction ==
    \E o \in Outcomes :
        LET f == Fetch(o) IN Call("recordInteraction", o, f, WriteResult(f.value))

InitClient ==
    /\ apiCalls = 0
    /\ netCalls = 0
    /\ lastCall = NoCall

InitControls ==
    /\ volume = VolumeMax
    /\ muted = FALSE
    /\ fullscreen = FALSE
    /\ quality = "auto"
    /\ videoVolume = VolumeMax
    /\ videoMuted = FALSE
    /\ docFullscreen = FALSE
    /\ lastCommand = "none"

InitPlayer ==
    /\ mounted = TRUE
    /\ playing = FALSE
    /\ currentTime = 0
    /\ sessionStarted = FALSE
    /\ startTimeRef = 0
    /\ interval = NoTimer
    /\ now = 0
    /\ timers = {}
    /\ startCalls = 0
    /\ hbCalls = 0
    /\ hbInFlight = 0
    /\ lastHbPos = None
    /\ endCalls = 0
    /\ lastWatchTime = None
    /\ firstPlayAt = None
    /\ lastMark = 0
    /\ startAck = "none"
    /\ endInFlight = 0
    /\ afterFailure = {}

InitLive ==
    /\ readyState = "NotConnected"
    /\ closeCalls = 0
    /\ unsubCalls = 0
    /\ closedAtCall = 0
    /\ messages = 0
    /\ updates = 0
    /\ lastUpdate = NoUpdate
    /\ parseErrors = 0
    /\ lastData = <<>>

Init == InitPlayer /\ InitLive /\ InitHls(TRUE) /\ InitControls /\ InitClient

Next ==
    \/ HandlePlay
    \/ HandlePause
    \/ HandleTimeUpdate
    \/ HandleEnded
    \/ Unmount
    \/ HeartbeatTick
    \/ HeartbeatSettled
    \/ StartSettled
    \/ EndSettled
    \/ AdvanceClock

Spec == Init /\ [][Next]_vars

NextLive ==
    \/ Connect
    \/ SocketOpen
    \/ SocketMessage
    \/ SocketClosed
    \/ Unsubscribe

SpecLive == Init /\ [][NextLive]_vars

InitPipeline ==
    /\ InitPlayer /\ InitLive /\ InitControls /\ InitClient
    /\ \E supported \in BOOLEAN : InitHls(supported)

NextPipeline ==
    \/ SourceChange
    \/ HlsError
    \/ Unmount

SpecPipeline == InitPipeline /\ [][NextPipeline]_vars

NextControls ==
    \/ ToggleMute
    \/ HandleVolumeChange
    \/ ToggleFullscreen
    \/ ExitFullscreen
    \/ SetQuality

SpecControls == Init /\ [][NextControls]_vars

NextClient ==
    \/ GetStreamInfo
    \/ GetRecommendations
    \/ GetViewerStats
    \/ StartSession
    \/ SendHeartbeat
    \/ EndSession
    \/ RecordInteraction

SpecClient == Init /\ [][NextClient]_vars

(***************************************************************************)
(* Session lifecycle properties (checked under Spec)                       *)
(***************************************************************************)
\* C1: startSession is called exactly once per mount, on the first
\* transition to playing, and never again on a later pause/resume cycle:
\* the number of calls is 1 once a 'play' event was observed and 0 before.
StartSessionOncePerMount ==
    startCalls = IF firstPlayAt # None THEN 1 ELSE 0

\* Playback was paused and resumed at a later time; the session was started
\* once.
ResumedAfterPause ==
    /\ mounted /\ playing /\ startCalls = 1
    /\ hbCalls = 0 /\ endCalls = 0
    /\ lastMark > firstPlayAt

\* C2: while the player stays playing, a heartbeat is issued each time 30 s
\* of wall-clock time elapse, whatever time-update events arrive: the time
\* since playing began or since the last heartbeat never exceeds 30 s.
HeartbeatEvery30s ==
    (mounted /\ playing) => now - lastMark <= HeartbeatInterval

\* C3: a mounted player has at most one armed heartbeat timer.
AtMostOneHeartbeatTimer ==
    Cardinality(timers) <= 1

\* The effect was re-run while playing (a time update re-armed the timer
\* after playing began) and a timer is armed.
TimerRearmed ==
    /\ mounted /\ playing
    /\ \E t \in timers : t.due > lastMark + HeartbeatInterval

\* C4: no two sendHeartbeat requests of the session are in flight at the
\* same time.
NoOverlappingHeartbeats ==
    hbInFlight <= 1

\* C5: endSession is called exactly once per session, over any sequence of
\* play, pause and ended events (never a second time).
EndSessionOnce ==
    endCalls <= 1

\* C6: the watch time passed to endSession is the whole seconds between the
\* first 'play' event of the mount and the 'ended' event.
WatchTimeIsElapsedSeconds ==
    [][(endCalls' > endCalls /\ firstPlayAt # None)
        => lastWatchTime' = (now - firstPlayAt) \div 1000]_vars

\* endSession was called for a started session after a time that is not a
\* whole number of seconds, and the session did not start at time 0.
EndedAfterFractionalTime ==
    /\ endCalls > 0 /\ firstPlayAt # None /\ firstPlayAt > 0
    /\ lastWatchTime > 0
    /\ lastWatchTime * 1000 < now - firstPlayAt
    /\ lastWatchTime * 1000 + 1000 > now - firstPlayAt

\* C7: once 'ended' was handled and endSession issued, no sendHeartbeat is
\* issued again.
NoHeartbeatAfterEnded ==
    [][endCalls > 0 => hbCalls' = hbCalls]_vars

\* C8: no sendHeartbeat is issued after unmount, and unmount leaves no
\* timer armed.
NoHeartbeatAfterUnmount ==
    [][~mounted => (hbCalls' = hbCalls /\ timers = {})]_vars

\* The player was unmounted while playing, and the wall clock has passed the
\* time at which the timer armed at unmount would have fired.
UnmountedWhilePlaying ==
    /\ ~mounted /\ playing /\ hbCalls = 0
    /\ now > lastMark + HeartbeatInterval

(***************************************************************************)
(* Live stats properties (checked under SpecLive)                          *)
(***************************************************************************)
\* C9: after unsubscribe() has returned, onUpdate is never invoked again, in
\* whichever connection state unsubscribe was called.
NoUpdateAfterUnsubscribe ==
    [][unsubCalls > 0 => updates' = updates]_vars

\* C10: unsubscribe() is idempotent: over any number of calls it issues
\* close at most once and only while the socket is open, and applying it a
\* second time leaves the state as the first call left it.
UnsubscribeIdempotent ==
    /\ [](/\ closeCalls <= 1
          /\ readyState # "NotConnected" =>
                Unsubscribed(Unsubscribed(SocketState)) = Unsubscribed(SocketState))
    /\ [][closeCalls' # closeCalls => readyState = "OPEN"]_vars

\* unsubscribe() was called again after the call that closed the socket.
UnsubscribedAgainAfterClose ==
    /\ closeCalls = 1 /\ closedAtCall > 0
    /\ unsubCalls > closedAtCall

\* C11: a malformed message is dropped without invoking onUpdate and without
\* closing the connection, and a well-formed message is delivered to
\* onUpdate, also after malformed ones: every message event leaves the
\* socket as it was and invokes onUpdate exactly when its data is JSON.
MalformedDroppedOthersDelivered ==
    [][messages' # messages =>
        /\ readyState' = readyState
        /\ closeCalls' = closeCalls
        /\ IF lastData' \in WellFormedData
           THEN updates' = updates + 1 /\ parseErrors' = parseErrors
           ELSE updates' = updates /\ parseErrors' = parseErrors + 1]_vars

\* A well-formed message was delivered after a malformed one was dropped, on
\* the same open subscription.
DeliveredAfterMalformed ==
    /\ readyState = "OPEN" /\ parseErrors >= 1 /\ updates = 1
    /\ lastData \in WellFormedData
    /\ lastUpdate # NoUpdate

(***************************************************************************)
(* Media pipeline properties (checked under SpecPipeline)                  *)
(***************************************************************************)
\* C12: the error handler applies the tiered policy as a function of
\* (fatal, type): non-fatal -> no action; fatal network -> startLoad and no
\* destroy; fatal media -> recoverMediaError and no destroy; fatal of any
\* other class -> destroy; and a destroyed pipeline gets no load or recovery
\* action afterwards.
TieredRecoveryPolicy ==
    [][/\ errors' # errors =>
            LET e == lastError'
                before == pipelines[e.pipeline]
                after == pipelines'[e.pipeline]
                dLoad == after.startLoads - before.startLoads
                dRecover == after.recovers - before.recovers
                dDestroy == after.destroyCalls - before.destroyCalls
            IN  /\ \A i \in 1..Len(pipelines) :
                     i # e.pipeline => pipelines'[i] = pipelines[i]
                /\ <<dLoad, dRecover, dDestroy>> =
                     IF ~e.fatal THEN <<0, 0, 0>>
                     ELSE IF e.type = "networkError" THEN <<1, 0, 0>>
                     ELSE IF e.type = "mediaError" THEN <<0, 1, 0>>
                     ELSE <<0, 0, 1>>
       /\ \A i \in 1..Len(pipelines) :
            pipelines[i].destroyCalls > 0 =>
                /\ pipelines'[i].startLoads = pipelines[i].startLoads
                /\ pipelines'[i].recovers = pipelines[i].recovers]_vars

\* A fatal network error was answered by startLoad on a pipeline that had
\* already recovered from a media error and is still live.
NetworkErrorResumedLoad ==
    /\ lastError.fatal /\ lastError.type = "networkError"
    /\ pipelines[lastError.pipeline].startLoads = 1
    /\ pipelines[lastError.pipeline].recovers = 1
    /\ pipelines[lastError.pipeline].destroyCalls = 0

\* C13: each pipeline instance is destroyed at most once, over any sequence
\* of error events, source changes and unmount.
DestroyedAtMostOnce ==
    \A i \in 1..Len(pipelines) : pipelines[i].destroyCalls <= 1

\* C18: a mounted player owns at most one live pipeline instance in every
\* reachable state (the old one is torn down before the new one is created),
\* and unmount leaves none.
AtMostOneLivePipeline ==
    /\ Cardinality(Live(pipelines)) <= 1
    /\ ~mounted => Live(pipelines) = {}

\* The source changed twice: three instances were created and only the last
\* is live.
SourceChangedTwice ==
    /\ mounted /\ Len(pipelines) = 3
    /\ Live(pipelines) = {3}

(***************************************************************************)
(* Transport control properties (checked under SpecControls)               *)
(***************************************************************************)
\* C20: toggleMute and setVolume stay mutually consistent: after any
\* sequence of them the controller's muted state equals the media element's
\* muted flag, and right after setVolume(v) muted is true exactly when v = 0.
MuteVolumeConsistent ==
    /\ muted = videoMuted
    /\ lastCommand = "setVolume" => (muted <=> volume = 0)

(***************************************************************************)
(* Transport and client properties (checked under SpecClient)              *)
(***************************************************************************)
\* The transport has nothing to return: the network failed, the status is
\* not 2xx, or the body is not JSON.
Unavailable(o) ==
    \/ o.network = "fail"
    \/ o.status < 200 \/ o.status > 299
    \/ o.body \in MalformedData

\* C14: the transport's fetch never raises: on network failure, non-2xx
\* status and body-parse failure it returns null, and it makes exactly one
\* network attempt per call.
TransportNeverRaises ==
    /\ netCalls = apiCalls
    /\ lastCall.op # "none" =>
        /\ ~lastCall.raised
        /\ Unavailable(lastCall.outcome) => lastCall.fetched = [type |-> "null"]

\* A 2xx response whose body is not JSON was turned into null.
BodyParseFailureReturnedNull ==
    /\ lastCall.op # "none"
    /\ lastCall.outcome.network = "ok" /\ lastCall.outcome.status = 200
    /\ lastCall.outcome.body \in MalformedData
    /\ lastCall.fetched = [type |-> "null"]
    /\ netCalls = MaxCalls

WritesReturnFlagOnce ==
    /\ netCalls = apiCalls
    /\ lastCall.op \in {"sendHeartbeat", "endSession", "recordInteraction"} =>
        LET o == lastCall.outcome
            v == lastCall.value
        IN  /\ ~lastCall.raised
            /\ v.type = "boolean"
            /\ Unavailable(o) => ~v.b
            /\ (~Unavailable(o) /\ o.body = <<"{", "success", ":", "true", "}">>) => v.b
            /\ (~Unavailable(o) /\ o.body = <<"{", "success", ":", "false", "}">>) => ~v.b

\* A heartbeat whose request failed returned false, and a second call was
\* not caused by it.
FailedHeartbeatReturnedFalse ==
    /\ lastCall.op = "sendHeartbeat"
    /\ lastCall.outcome.network = "fail"
    /\ lastCall.value = [type |-> "boolean", b |-> FALSE]
    /\ apiCalls = 1 /\ netCalls = 1

(***************************************************************************)
(* Telemetry and ordering properties (checked under Spec)                  *)
(***************************************************************************)
\* C17: telemetry outcomes do not influence the controller: a step in which
\* an analytics call settles, with success or with failure, leaves the
\* playback state, the session state, the timers and the calls issued
\* unchanged, so runs that differ only in outcomes issue the same calls.
TelemetryDoesNotInfluence ==
    [][(\/ hbInFlight' < hbInFlight
        \/ endInFlight' < endInFlight
        \/ (startAck = "pending" /\ startAck' \in {"ok", "failed"}))
       => /\ UNCHANGED <<mounted, playing, currentTime, sessionStarted,
                         startTimeRef, interval, timers>>
          /\ UNCHANGED <<startCalls, hbCalls, lastHbPos, endCalls,
                         lastWatchTime>>]_vars

\* startSession failed, and afterwards a heartbeat and the end call were
\* issued all the same.
CallsContinueAfterFailedStart ==
    /\ startAck = "failed" /\ startCalls = 1
    /\ afterFailure = {"sendHeartbeat", "endSession"}

\* C19: endSession and sendHeartbeat are issued only after startSession has
\* been issued for the mount, for every ordering of the media events.
SessionCallsOnlyAfterStart ==
    (endCalls > 0 \/ hbCalls > 0) => startCalls > 0

====
